---- MODULE Spec2Model ----
(***************************************************************************)
(* GPS Data Processor (main.go): readCSV, groupByID, processGroups and     *)
(* filterRecords, as main runs them on one input file; and main itself,    *)
(* from the command line and the directory to the two output files, run    *)
(* after run.                                                              *)
(*                                                                         *)
(* Files.  A file name is the sequence of its parts; a directory maps the  *)
(* names of its files to what they hold.  Creating a file may fail.        *)
(*                                                                         *)
(* Numbers.  Latitude and longitude are whole degrees, timestamps whole    *)
(* seconds, distances whole kilometres and speeds whole km/h: a float64    *)
(* result is modelled by the integer below the exact value.  A float64     *)
(* division by zero gives +Inf or NaN in Go, so Speed is a tagged value.   *)
(***************************************************************************)
EXTENDS Integers, Sequences, FiniteSets, TLC

\* ---------------------------------------------------------------- bounds
\* The longest input file, in data rows.
MaxRows == 3

\* ---------------------------------------------------------------- inputs
IDs == {"d1", "d2"}
Points == {<<40, -74>>, <<50, -64>>}
Times == {0, 3600, 7200}
\* The thresholds a run is started with, and those filterRecords is asked about.
Thresholds == {0, 676}
QueryThresholds == Thresholds \cup {-1, 1, 1000, 1353, 2000}

\* ------------------------------------------------------------ float64
Fin(v) == [k |-> "fin", v |-> v]
PosInf == [k |-> "inf", v |-> 0]
NaN == [k |-> "nan", v |-> 0]

\* x / y on float64: no fault on y = 0.
FloatDiv(x, y) ==
  IF y = 0 THEN (IF x = 0 THEN NaN ELSE PosInf) ELSE Fin(x \div y)

\* s >= t on float64: false for NaN.
FloatGE(s, t) ==
  CASE s.k = "fin" -> s.v >= t
    [] s.k = "inf" -> TRUE
    [] OTHER -> FALSE

\* ------------------------------------------------ haversine.Distance
\* Fixed point: angles in radians times Scale.
Scale == 10000
EarthRadiusKm == 6371

Abs(x) == IF x < 0 THEN -x ELSE x

\* A product that rounds down whatever the signs, so that x * y and
\* (-x) * y differ in size.
MulFloor(a, b) == (a * b) \div Scale

\* a * b, rounded towards zero whatever the signs, as float64 rounds -v to -(v).
Mul(a, b) ==
  IF (a < 0) = (b < 0) THEN (Abs(a) * Abs(b)) \div Scale
  ELSE -((Abs(a) * Abs(b)) \div Scale)

\* Half of d degrees, in radians.
HalfRad(d) == IF d < 0 THEN -((-d * 17453) \div 200) ELSE (d * 17453) \div 200

\* d degrees, in radians.
Rad(d) == IF d < 0 THEN -((-d * 17453) \div 100) ELSE (d * 17453) \div 100

SinPos(x) ==
  LET x2 == Mul(x, x)
  IN Mul(x, Scale - Mul(x2, Scale - Mul(x2, Scale - Mul(x2, Scale - x2 \div 72)
                                                   \div 42) \div 20) \div 6)

Sin(x) == IF x < 0 THEN -SinPos(-x) ELSE SinPos(x)

Cos(x) ==
  LET x2 == Mul(x, x)
  IN Scale - Mul(x2, Scale - Mul(x2, Scale - Mul(x2, Scale - x2 \div 56)
                                           \div 30) \div 12) \div 2

RECURSIVE SqrtSearch(_, _, _)
SqrtSearch(n, lo, hi) ==
  IF lo >= hi THEN lo
  ELSE LET mid == (lo + hi + 1) \div 2
       IN IF mid * mid <= n THEN SqrtSearch(n, mid, hi)
          ELSE SqrtSearch(n, lo, mid - 1)

\* The square root of n / Scale^2, times Scale.
Sqrt(n) == SqrtSearch(n, 0, 2 * Scale)

\* atan z for 0 <= z <= 1 (z times Scale), halving the angle first.
AtanUnit(z) ==
  LET w  == (z * Scale) \div (Scale + Sqrt(Scale * Scale + z * z))
      w2 == Mul(w, w)
  IN 2 * Mul(w, Scale - Mul(w2, Scale \div 3 - Mul(w2, Scale \div 5
                       - Mul(w2, Scale \div 7 - Mul(w2, Scale \div 9)))))

HalfPi == 15708

\* math.Atan2(y, x) for y >= 0, x >= 0.
Atan2(y, x) ==
  IF y = 0 THEN 0
  ELSE IF y <= x THEN AtanUnit((y * Scale) \div x)
  ELSE HalfPi - AtanUnit((x * Scale) \div y)

\* a = sin^2(dphi/2) + cos(phi1) cos(phi2) sin^2(dlambda/2), times Scale^2.
HaversineA(lat1, lon1, lat2, lon2) ==
  LET sphi == Sin(HalfRad(lat2 - lat1))
      slam == Sin(HalfRad(lon2 - lon1))
      c12  == Mul(Cos(Rad(lat1)), Cos(Rad(lat2)))
  IN sphi * sphi + Mul(c12, slam) * slam

\* Great-circle distance in km: 2 R atan2(sqrt a, sqrt(1 - a)).
Distance(lat1, lon1, lat2, lon2) ==
  LET a == HaversineA(lat1, lon1, lat2, lon2)
      c == 2 * Atan2(Sqrt(a), Sqrt(Scale * Scale - a))
  IN (EarthRadiusKm * c) \div Scale

\* haversine.Distance between the coordinates of the input, computed once.
DistanceOf == [a \in Points, b \in Points |-> Distance(a[1], a[2], b[1], b[2])]


\* ------------------------------------------------------------- records
\* time.Time{}: the zero instant, before every timestamp of Times.
ZeroTime == -1

\* A Record as readCSV builds it: the derived fields hold Go's zero values.
Record(id, lat, lon, ts, row) ==
  [ID |-> id, Latitude |-> lat, Longitude |-> lon, Timestamp |-> ts,
   OriginalRow |-> row, TimeDiff |-> 0, Distance |-> 0, Speed |-> Fin(0),
   PreviousRow |-> 0, PrevLatitude |-> 0, PrevLongitude |-> 0,
   PrevTimestamp |-> ZeroTime]

\* ------------------------------------------------------- the input file
\* A cell of text that strconv.ParseFloat / time.Parse accepts, or not.
Cell(v) == [ok |-> TRUE, val |-> v]
BadCell == [ok |-> FALSE, val |-> 0]

\* The default configuration's column names.
Columns ==
  [ID |-> "ID", Latitude |-> "latitude", Longitude |-> "longitude",
   Timestamp |-> "timestamp"]

GoodHeader == <<"ID", "latitude", "longitude", "timestamp">>
ShortHeader == <<"ID", "latitude", "longitude">>

ValidRows ==
  {<<id, Cell(p[1]), Cell(p[2]), Cell(t)>> : id \in IDs, p \in Points, t \in Times}

BadRows ==
  {<<"d1", BadCell, Cell(-74), Cell(0)>>,
   <<"d1", Cell(40), BadCell, Cell(0)>>,
   <<"d1", Cell(40), Cell(-74), BadCell>>}

SeqsUpTo(S, n) == UNION {[1..k -> S] : k \in 0..n}

\* Files: any valid rows; valid rows up to one unparsable row; a header
\* without the timestamp column; an empty file.
Files ==
  {[header |-> GoodHeader, rows |-> rs] : rs \in SeqsUpTo(ValidRows, MaxRows)}
  \cup {[header |-> GoodHeader, rows |-> Append(rs, b)] :
          rs \in SeqsUpTo(ValidRows, 1), b \in BadRows}
  \cup {[header |-> ShortHeader, rows |-> <<>>], [header |-> <<>>, rows |-> <<>>]}

\* IDs that differ only in case or in white space, and files of such rows.
CaseIDs == {"d1", "D1", "d1 "}

CaseRows ==
  {<<id, Cell(40), Cell(-74), Cell(t)>> : id \in CaseIDs, t \in {0, 3600}}

CaseFiles ==
  {[header |-> GoodHeader, rows |-> rs] : rs \in SeqsUpTo(CaseRows, MaxRows)}
  \cup {[header |-> GoodHeader, rows |-> <<b>>] : b \in BadRows}
  \cup {[header |-> ShortHeader, rows |-> <<>>]}

\* Files of samples taken on the hour: two devices, two places, two times.
SampleTimes == {0, 3600}

SampleRows ==
  {<<id, Cell(p[1]), Cell(p[2]), Cell(t)>> :
     id \in IDs, p \in Points, t \in SampleTimes}

SampleFiles ==
  {[header |-> GoodHeader, rows |-> rs] : rs \in SeqsUpTo(SampleRows, MaxRows)}
  \cup {[header |-> GoodHeader, rows |-> <<b>>] : b \in BadRows}
  \cup {[header |-> ShortHeader, rows |-> <<>>]}

\* Longer files, so that a device with several rows shares the file with
\* another: every assignment of the rows to the devices, the rows on the hour
\* in ascending order, in descending order, or at two alternating hours, the
\* places alternating too.
LongLen == MaxRows + 2

LongTimes ==
  {[i \in 1..LongLen |-> (i - 1) * 3600],
   [i \in 1..LongLen |-> (LongLen - i) * 3600],
   [i \in 1..LongLen |-> (i % 2) * 3600]}

LongPlaces ==
  LET a == CHOOSE p \in Points : TRUE
      b == CHOOSE p \in Points : p # a
  IN [i \in 1..LongLen |-> IF i % 2 = 1 THEN a ELSE b]

LongFiles ==
  {[header |-> GoodHeader,
    rows |-> [i \in 1..LongLen |->
                <<ids[i], Cell(LongPlaces[i][1]), Cell(LongPlaces[i][2]),
                  Cell(ts[i])>>]] :
     ids \in [1..LongLen -> IDs], ts \in LongTimes}
  \cup {[header |-> GoodHeader, rows |-> <<b>>] : b \in BadRows}
  \cup {[header |-> ShortHeader, rows |-> <<>>]}

\* ---------------------------------------------------------------- state
VARIABLES
  pc,                \* main's position
  file,              \* the input CSV file
  filterAboveKph,    \* config.Parameters.FilterAboveKph as main uses it
  next,              \* the csv.Reader's position: the next data row
  rowNumber,         \* readCSV's rowNumber
  idx,               \* readCSV's idIdx, latIdx, lonIdx, timestampIdx
  records,           \* readCSV's records
  groupedRecords,    \* main's groupedRecords
  processedRecords,  \* main's processedRecords
  filteredRecords,   \* main's filteredRecords
  divisors,          \* history: every elapsed time a speed was divided by
  previousRun,       \* history: the outputs of the pipeline's previous run
  args,              \* os.Args[1:]
  dir,               \* the current directory: file name -> content
  config,            \* main's config
  configFile,        \* main's configFile
  inputFile,         \* main's inputFile
  written,           \* history: the files this run created
  startDir,          \* history: the directory as this run found it
  lastRun,           \* history: how the run before this one ended
  outputs,           \* what this run has put into the files it created
  run                \* the number of this run

\* What main holds besides the state of Steps 1 to 4.
mainVars ==
  <<args, dir, config, configFile, inputFile, written, startDir, lastRun,
    outputs, run>>

vars ==
  <<pc, file, filterAboveKph, next, rowNumber, idx, records, groupedRecords,
    processedRecords, filteredRecords, divisors, previousRun, args, dir,
    config, configFile, inputFile, written, startDir, lastRun, outputs, run>>

EmptyMap == [id \in {} |-> <<>>]

\* A directory without files; the empty string for a file name.
EmptyDir == [n \in {} |-> [kind |-> "none"]]
NoName == <<>>

\* main's config before any file is loaded.
DefaultConfig(threshold) ==
  [Columns |-> Columns, Parameters |-> [FilterAboveKph |-> threshold]]

\* Steps 1 to 4 alone: no command line and no directory.
NoCommandLine ==
  /\ args = <<>>
  /\ dir = EmptyDir
  /\ configFile = NoName
  /\ inputFile = NoName
  /\ written = {}
  /\ startDir = EmptyDir
  /\ lastRun = <<>>
  /\ outputs = EmptyDir
  /\ run = 1

Init ==
  /\ pc = "start"
  /\ file \in Files
  /\ filterAboveKph \in Thresholds
  /\ next = 1
  /\ rowNumber = 0
  /\ idx = [id |-> 0, lat |-> 0, lon |-> 0, ts |-> 0]
  /\ records = <<>>
  /\ groupedRecords = EmptyMap
  /\ processedRecords = <<>>
  /\ filteredRecords = <<>>
  /\ divisors = {}
  /\ previousRun = <<>>
  /\ config = DefaultConfig(filterAboveKph)
  /\ NoCommandLine

\* ---------------------------------------------------------------- readCSV
\* The index the header loop leaves for a column name: the last match,
\* 0 standing for Go's -1 (sequences are 1-based here).
RECURSIVE ColumnLoop(_, _, _, _)
ColumnLoop(header, name, i, found) ==
  IF i > Len(header) THEN found
  ELSE ColumnLoop(header, name, i + 1, IF header[i] = name THEN i ELSE found)

\* A lookup that falls back to the first column for a name the header
\* does not have.
ColumnIndexOrFirst(header, name) ==
  LET i == ColumnLoop(header, name, 1, 0)
  IN IF i = 0 /\ header # <<>> THEN 1 ELSE i

ColumnIndex(header, name) == ColumnLoop(header, name, 1, 0)

\* rowNumber := 1, "to account for header".
HeaderRowNumber == 1

\* reader.Read() of the header, the column lookup and its validation.
ReadHeader ==
  /\ pc = "start"
  /\ LET found == [id  |-> ColumnIndex(file.header, config.Columns.ID),
                   lat |-> ColumnIndex(file.header, config.Columns.Latitude),
                   lon |-> ColumnIndex(file.header, config.Columns.Longitude),
                   ts  |-> ColumnIndex(file.header, config.Columns.Timestamp)]
     IN /\ idx' = found
        /\ IF \/ file.header = <<>>
              \/ found.id = 0 \/ found.lat = 0 \/ found.lon = 0 \/ found.ts = 0
           THEN pc' = "error" /\ rowNumber' = rowNumber
           ELSE pc' = "rows" /\ rowNumber' = HeaderRowNumber
  /\ UNCHANGED <<file, filterAboveKph, next, records, groupedRecords,
                 processedRecords, filteredRecords, divisors, previousRun>>
  /\ UNCHANGED mainVars

\* A reader that numbers the data rows from 1, leaving the header out.
ParsedRecordHeaderExcluded(row, cols, n) ==
  Record(row[cols.id], row[cols.lat].val, row[cols.lon].val, row[cols.ts].val,
         n - 1)

\* A reader that numbers the rows from 0 at the first data row.
ParsedRecordFromZero(row, cols, n) ==
  Record(row[cols.id], row[cols.lat].val, row[cols.lon].val, row[cols.ts].val,
         n - 2)

\* The record readCSV appends for a parsed row.
ParsedRecord(row, cols, n) ==
  Record(row[cols.id], row[cols.lat].val, row[cols.lon].val, row[cols.ts].val, n)

\* One turn of readCSV's row loop: EOF ends it; an unparsable latitude,
\* longitude or timestamp returns nil and the error.
ReadRow ==
  /\ pc = "rows"
  /\ IF next > Len(file.rows)
     THEN /\ pc' = "read"
          /\ UNCHANGED <<next, rowNumber, records>>
     ELSE LET row == file.rows[next]
          IN /\ next' = next + 1
             /\ rowNumber' = rowNumber + 1
             /\ IF row[idx.lat].ok /\ row[idx.lon].ok /\ row[idx.ts].ok
                THEN /\ records' = Append(records, ParsedRecord(row, idx, rowNumber'))
                     /\ pc' = pc
                ELSE /\ records' = <<>>
                     /\ pc' = "error"
  /\ UNCHANGED <<file, filterAboveKph, idx, groupedRecords, processedRecords,
                 filteredRecords, divisors, previousRun>>
  /\ UNCHANGED mainVars


\* ---------------------------------------------------------------- groupByID
RECURSIVE GroupLoop(_, _, _)
GroupLoop(recs, i, groups) ==
  IF i > Len(recs) THEN groups
  ELSE LET r   == recs[i]
           old == IF r.ID \in DOMAIN groups THEN groups[r.ID] ELSE <<>>
       IN GroupLoop(recs, i + 1,
            [id \in DOMAIN groups \cup {r.ID} |->
               IF id = r.ID THEN Append(old, r) ELSE groups[id]])

\* A grouper that assigns where it should append: each bucket keeps only
\* the last record of its device.
groupByIDOverwrite(recs) ==
  [id \in {recs[i].ID : i \in DOMAIN recs} |->
     <<recs[CHOOSE i \in DOMAIN recs :
              /\ recs[i].ID = id
              /\ \A j \in DOMAIN recs : j > i => recs[j].ID # id]>>]

\* A grouper whose map is made with a bucket for the empty ID in it.
groupByIDSeeded(recs) == GroupLoop(recs, 1, [id \in {""} |-> <<>>])

\* A grouper that folds case and trims white space before it keys.
Normalized(id) == IF id \in {"D1", "d1 "} THEN "d1" ELSE id

groupByIDNormalized(recs) ==
  [id \in {Normalized(recs[i].ID) : i \in DOMAIN recs} |->
     SelectSeq(recs, LAMBDA r : Normalized(r.ID) = id)]

groupByID(recs) == GroupLoop(recs, 1, EmptyMap)

GroupByID ==
  /\ pc = "read"
  /\ groupedRecords' = groupByID(records)
  /\ pc' = "grouped"
  /\ UNCHANGED <<file, filterAboveKph, next, rowNumber, idx, records,
                 processedRecords, filteredRecords, divisors, previousRun>>
  /\ UNCHANGED mainVars

\* ------------------------------------------------------------ processGroups
\* The comparison turned round: later first.
After(a, b) == a.Timestamp > b.Timestamp

\* group[i].Timestamp.Before(group[j].Timestamp)
Before(a, b) == a.Timestamp < b.Timestamp

IndexOrders(n) == {p \in [1..n -> 1..n] : \A i, j \in 1..n : p[i] = p[j] => i = j}

\* No sort at all: the group in input order.
SortSliceSkipped(group) == {group}

\* sort.Slice(group, less): the slice in an order where no element is Before
\* an earlier one.  sort.Slice "is not guaranteed to be stable": elements
\* that are not Before one another may come out in any order.
SortSlice(group) ==
  {[i \in 1..Len(group) |-> group[p[i]]] : p \in
     {q \in IndexOrders(Len(group)) :
        \A i, j \in 1..Len(group) : i < j => ~Before(group[q[j]], group[q[i]])}}

\* A guard that lets a zero elapsed time through to the division.
NonNegativeElapsed(timeDiff) == timeDiff >= 0

\* No guard at all: the division is made for every elapsed time.
AnyElapsed(timeDiff) == TRUE

\* if timeDiff > 0
PositiveElapsed(timeDiff) == timeDiff > 0

\* distance / (timeDiff / 3600)
SpeedKph(distance, timeDiff) == FloatDiv(distance * 3600, timeDiff)

\* A derivation that names the row above in the file as the previous row.
WithPreviousRowAbove(cur, prev) ==
  LET timeDiff == cur.Timestamp - prev.Timestamp
      distance == DistanceOf[<<prev.Latitude, prev.Longitude>>,
                             <<cur.Latitude, cur.Longitude>>]
  IN [cur EXCEPT !.TimeDiff = timeDiff,
                 !.Distance = distance,
                 !.PreviousRow = cur.OriginalRow - 1,
                 !.Speed = IF timeDiff > 0
                           THEN FloatDiv(distance * 3600, timeDiff) ELSE Fin(0),
                 !.PrevLatitude = prev.Latitude,
                 !.PrevLongitude = prev.Longitude,
                 !.PrevTimestamp = prev.Timestamp]

\* A record that names its own row as the one before it.
WithPreviousOwnRow(cur, prev) ==
  LET timeDiff == cur.Timestamp - prev.Timestamp
      distance == DistanceOf[<<prev.Latitude, prev.Longitude>>,
                             <<cur.Latitude, cur.Longitude>>]
  IN [cur EXCEPT !.TimeDiff = timeDiff,
                 !.Distance = distance,
                 !.PreviousRow = cur.OriginalRow,
                 !.Speed = IF PositiveElapsed(timeDiff)
                           THEN SpeedKph(distance, timeDiff) ELSE Fin(0),
                 !.PrevLatitude = prev.Latitude,
                 !.PrevLongitude = prev.Longitude,
                 !.PrevTimestamp = prev.Timestamp]

\* The i > 0 branch: group[i] from its predecessor group[i-1].
WithPrevious(cur, prev) ==
  LET timeDiff == cur.Timestamp - prev.Timestamp
      distance == DistanceOf[<<prev.Latitude, prev.Longitude>>,
                             <<cur.Latitude, cur.Longitude>>]
  IN [cur EXCEPT !.TimeDiff = timeDiff,
                 !.Distance = distance,
                 !.PreviousRow = prev.OriginalRow,
                 !.Speed = IF PositiveElapsed(timeDiff)
                           THEN SpeedKph(distance, timeDiff) ELSE Fin(0),
                 !.PrevLatitude = prev.Latitude,
                 !.PrevLongitude = prev.Longitude,
                 !.PrevTimestamp = prev.Timestamp]

\* A first record reset altogether, its position included.
FirstOfGroupReset(cur) ==
  [cur EXCEPT !.Latitude = 0, !.Longitude = 0, !.TimeDiff = 0, !.Distance = 0,
              !.Speed = Fin(0), !.PreviousRow = 0, !.PrevLatitude = 0,
              !.PrevLongitude = 0]

\* The else branch: the first record of the group.
FirstOfGroup(cur) ==
  [cur EXCEPT !.TimeDiff = 0, !.Distance = 0, !.Speed = Fin(0),
              !.PreviousRow = 0, !.PrevLatitude = 0, !.PrevLongitude = 0]

\* The inner loop, writing group[i] in place.
RECURSIVE DeriveLoop(_, _)
DeriveLoop(group, i) ==
  IF i > Len(group) THEN group
  ELSE DeriveLoop(
         [group EXCEPT ![i] = IF i > 1 THEN WithPrevious(group[i], group[i - 1])
                              ELSE FirstOfGroup(group[i])],
         i + 1)

\* The elapsed times the inner loop divides by.
Divisions(group) ==
  {group[i].Timestamp - group[i - 1].Timestamp : i \in
     {j \in 2..Len(group) :
        PositiveElapsed(group[j].Timestamp - group[j - 1].Timestamp)}}

\* for _, group := range groups: Go ranges over a map in an order of its own.
KeyOrders(keys) ==
  {o \in [1..Cardinality(keys) -> keys] :
     \A i, j \in 1..Cardinality(keys) : o[i] = o[j] => i = j}

\* One sorted slice for every group.
SortChoices(groups) ==
  {f \in [DOMAIN groups -> UNION {SortSlice(groups[id]) : id \in DOMAIN groups}] :
     \A id \in DOMAIN groups : f[id] \in SortSlice(groups[id])}

RECURSIVE Flatten(_, _, _)
Flatten(order, groups, i) ==
  IF i > Len(order) THEN <<>>
  ELSE groups[order[i]] \o Flatten(order, groups, i + 1)

\* Every outcome of processGroups(groups): the records returned, the groups
\* as the in-place sort and loop leave them, and the divisions made.
processGroups(groups) ==
  {LET done == [id \in DOMAIN groups |-> DeriveLoop(sorted[id], 1)]
   IN [out    |-> Flatten(order, done, 1),
       groups |-> done,
       divs   |-> UNION {Divisions(sorted[id]) : id \in DOMAIN groups}] :
     order \in KeyOrders(DOMAIN groups), sorted \in SortChoices(groups)}

ProcessGroups ==
  /\ pc = "grouped"
  /\ \E res \in processGroups(groupedRecords) :
       /\ processedRecords' = res.out
       /\ groupedRecords' = res.groups
       /\ divisors' = divisors \cup res.divs
  /\ pc' = "processed"
  /\ UNCHANGED <<file, filterAboveKph, next, rowNumber, idx, records,
                 filteredRecords, previousRun>>
  /\ UNCHANGED mainVars

\* ------------------------------------------------------------ filterRecords
\* A filter without the PreviousRow test.
KeepsWithoutPredecessor(record, threshold) == FloatGE(record.Speed, threshold)

\* A filter that wants the speed above the threshold, not at it.
KeepsAbove(record, threshold) ==
  record.PreviousRow # 0 /\ FloatGE(record.Speed, threshold + 1)

\* A filter with the comparison turned round.
KeepsBelow(record, threshold) ==
  record.PreviousRow # 0 /\ ~FloatGE(record.Speed, threshold)

\* A filter that compares with > where the code compares with >=.
KeepsStrictlyAbove(record, threshold) ==
  /\ record.PreviousRow # 0
  /\ FloatGE(record.Speed, threshold)
  /\ record.Speed # Fin(threshold)

\* record.PreviousRow != 0, then record.Speed >= filterAboveKph
Keeps(record, threshold) ==
  record.PreviousRow # 0 /\ FloatGE(record.Speed, threshold)

RECURSIVE FilterLoop(_, _, _, _)
FilterLoop(recs, threshold, i, filtered) ==
  IF i > Len(recs) THEN filtered
  ELSE FilterLoop(recs, threshold, i + 1,
         IF Keeps(recs[i], threshold) THEN Append(filtered, recs[i])
         ELSE filtered)

\* A filter that clears the speed of the records it keeps.
filterRecordsClearing(recs, threshold) ==
  LET kept == FilterLoop(recs, threshold, 1, <<>>)
  IN [j \in DOMAIN kept |-> [kept[j] EXCEPT !.Speed = Fin(0)]]

filterRecords(recs, threshold) == FilterLoop(recs, threshold, 1, <<>>)

FilterRecords ==
  /\ pc = "processed"
  /\ filteredRecords' = filterRecords(processedRecords, filterAboveKph)
  /\ pc' = "filtered"
  /\ UNCHANGED <<file, filterAboveKph, next, rowNumber, idx, records,
                 groupedRecords, processedRecords, divisors, previousRun>>
  /\ UNCHANGED mainVars

\* ------------------------------------------------- files and arguments
\* A file name is the sequence of its parts, the extension last:
\* "track_data_processed.csv" is <<"track_data", "_processed", ".csv">>.
ConfigYaml == <<"config", ".yaml">>
MyConfig == <<"my_config", ".yaml">>
AltYml == <<"alt", ".yml">>
TrackData == <<"track_data", ".csv">>
SampleCsv == <<"sample", ".csv">>

\* filepath.Ext(filename); strings.Contains(filename, part)
Ext(filename) == IF filename = <<>> THEN "" ELSE filename[Len(filename)]
Contains(filename, part) == \E i \in DOMAIN filename : filename[i] = part

\* What a directory holds under a name. A YAML file gives the sections
\* it has: columns and parameters are <<>> when the section is missing.
Entry(kind, columns, parameters) ==
  [kind |-> kind, columns |-> columns, parameters |-> parameters]

\* The file createDefaultConfigFile writes.
DefaultThreshold == 1
DefaultYaml == Entry("yaml", <<Columns>>, <<DefaultThreshold>>)

\* A configuration of the user's own: other column names, another threshold.
CustomColumns ==
  [ID |-> "device", Latitude |-> "lat", Longitude |-> "lon",
   Timestamp |-> "time"]
CustomHeader == <<"device", "lat", "lon", "time">>
CustomThreshold == 676
CustomYaml == Entry("yaml", <<CustomColumns>>, <<CustomThreshold>>)

\* A YAML file with the columns section only; one yaml.Unmarshal rejects.
ColumnsYaml == Entry("yaml", <<Columns>>, <<>>)
BrokenYaml == Entry("broken", <<>>, <<>>)

\* A CSV file (its content is the variable file); an output of a run.
CsvEntry == Entry("csv", <<>>, <<>>)
OutputEntry == Entry("output", <<>>, <<>>)

\* d with name (over)written.
WithFile(d, name, entry) ==
  [n \in DOMAIN d \cup {name} |-> IF n = name THEN entry ELSE d[n]]

\* The directories a run may start in.
DirOf(choice) ==
  [n \in {m \in DOMAIN choice : choice[m] # <<>>} |-> choice[n][1]]

Dirs ==
  {DirOf([n \in {ConfigYaml, MyConfig, AltYml, TrackData, SampleCsv} |->
            CASE n = ConfigYaml -> c
              [] n = MyConfig -> m
              [] n = AltYml -> y
              [] n = TrackData -> t
              [] OTHER -> s]) :
     c \in {<<>>, <<DefaultYaml>>, <<ColumnsYaml>>, <<BrokenYaml>>},
     m \in {<<>>, <<CustomYaml>>},
     y \in {<<>>, <<DefaultYaml>>},
     t \in {<<>>, <<CsvEntry>>},
     s \in {<<>>, <<CsvEntry>>}}

\* A command-line argument: its text, and what strconv.ParseFloat makes of
\* it (<<>> when it is not a number).
Arg(text, float) == [text |-> text, float |-> float]
CliThreshold == 2000
HelpFlag == Arg(<<"-h">>, <<>>)
IsHelp(arg) == arg.text \in {<<"-h">>, <<"--help">>}

ArgLists ==
  {<<>>,
   <<HelpFlag>>,
   <<Arg(TrackData, <<>>)>>,
   <<Arg(TrackData, <<>>), Arg(<<"2000">>, <<CliThreshold>>)>>,
   <<Arg(TrackData, <<>>), Arg(MyConfig, <<>>)>>,
   <<Arg(TrackData, <<>>), Arg(<<"2000">>, <<CliThreshold>>),
     Arg(MyConfig, <<>>)>>}

\* The input files of the runs of main: two samples of one device 1353 km
\* and one hour apart, under either header; a row that does not parse; a
\* header without the timestamp column; no data rows.
TwoRows ==
  <<<<"d1", Cell(40), Cell(-74), Cell(0)>>,
    <<"d1", Cell(50), Cell(-64), Cell(3600)>>>>

MainFiles ==
  {[header |-> GoodHeader, rows |-> TwoRows],
   [header |-> CustomHeader, rows |-> TwoRows],
   [header |-> GoodHeader, rows |-> <<TwoRows[1], <<"d1", BadCell, Cell(-74), Cell(0)>>>>],
   [header |-> GoodHeader, rows |-> <<TwoRows[1], <<"d1", Cell(40), BadCell, Cell(0)>>>>],
   [header |-> GoodHeader, rows |-> <<TwoRows[1], <<"d1", Cell(40), Cell(-74), BadCell>>>>],
   [header |-> ShortHeader, rows |-> <<>>],
   [header |-> GoodHeader, rows |-> <<>>]}

\* ------------------------------------------------------------- main
\* The state of Steps 1 to 4 that main's other steps leave alone.
pipelineVars ==
  <<file, next, rowNumber, idx, records, groupedRecords, processedRecords,
    filteredRecords, divisors, previousRun>>

\* A run has ended: help shown, config.yaml created, exit status 1 after a
\* read error or a write error, or the summary printed.
Ended == pc \in {"help", "halted", "error", "exit1", "done"}

\* if len(args) > 0 && (args[0] == "-h" || args[0] == "--help")
Help ==
  /\ pc = "main"
  /\ Len(args) > 0 /\ IsHelp(args[1])
  /\ pc' = "help"
  /\ UNCHANGED <<pipelineVars, filterAboveKph, mainVars>>

\* A start that creates config.yaml and goes on with the run.
CreateDefaultConfigAndGoOn ==
  /\ pc = "main"
  /\ ~(Len(args) > 0 /\ IsHelp(args[1]))
  /\ pc' = "args"
  /\ dir' = IF ConfigYaml \in DOMAIN dir THEN dir
            ELSE WithFile(dir, ConfigYaml, DefaultYaml)
  /\ UNCHANGED <<pipelineVars, filterAboveKph, args, config, configFile,
                 inputFile, written, startDir, lastRun, outputs, run>>

\* os.Stat("config.yaml"): when the file does not exist it is created and
\* the run ends; when creating it fails the run warns and goes on.
CreateDefaultConfig ==
  /\ pc = "main"
  /\ ~(Len(args) > 0 /\ IsHelp(args[1]))
  /\ IF ConfigYaml \in DOMAIN dir
     THEN pc' = "args" /\ dir' = dir
     ELSE \/ pc' = "halted" /\ dir' = WithFile(dir, ConfigYaml, DefaultYaml)
          \/ pc' = "args" /\ dir' = dir
  /\ UNCHANGED <<pipelineVars, filterAboveKph, args, config, configFile,
                 inputFile, written, startDir, lastRun, outputs, run>>

\* A finder that counts the outputs of earlier runs as well.
findSingleFileCountingOutputs(d, extension) ==
  LET matchingFiles == {n \in DOMAIN d : Ext(n) = extension}
  IN IF Cardinality(matchingFiles) = 1
     THEN CHOOSE n \in matchingFiles : TRUE
     ELSE NoName

\* The only file of the directory with the extension whose name does not
\* contain "_processed", "" when there is none or more than one.
findSingleFileByExtension(d, extension) ==
  LET matchingFiles ==
        {n \in DOMAIN d : Ext(n) = extension /\ ~Contains(n, "_processed")}
  IN IF Cardinality(matchingFiles) = 1
     THEN CHOOSE n \in matchingFiles : TRUE
     ELSE NoName

\* inputFile as main chooses it.
InputFileOf(as, d) ==
  IF Len(as) > 0 THEN as[1].text
  ELSE LET singleCSV == findSingleFileByExtension(d, ".csv")
       IN IF singleCSV # NoName THEN singleCSV ELSE SampleCsv

\* configFile as main chooses it: the second argument when it is not a
\* number, else the third.
ConfigFileOf(as) ==
  LET second == IF Len(as) > 1 /\ as[2].float = <<>> THEN as[2].text
                ELSE NoName
  IN IF Len(as) > 2 /\ second = NoName THEN as[3].text ELSE second

\* config after the arguments: a numeric second argument is the threshold.
ConfigOfArgs(cfg, as) ==
  IF Len(as) > 1 /\ as[2].float # <<>>
  THEN [cfg EXCEPT !.Parameters.FilterAboveKph = as[2].float[1]]
  ELSE cfg

ParseArgs ==
  /\ pc = "args"
  /\ inputFile' = InputFileOf(args, dir)
  /\ configFile' = ConfigFileOf(args)
  /\ config' = ConfigOfArgs(config, args)
  /\ pc' = "config"
  /\ UNCHANGED <<pipelineVars, filterAboveKph, args, dir, written, startDir,
                 lastRun, outputs, run>>

\* config after loadConfig(filename, &config): yaml.Unmarshal sets what
\* the file has and leaves the rest; on an error main warns and goes on
\* with config as it was.
loadConfig(d, filename, cfg) ==
  IF filename \notin DOMAIN d \/ d[filename].kind # "yaml" THEN cfg
  ELSE [Columns |-> IF d[filename].columns # <<>>
                    THEN d[filename].columns[1] ELSE cfg.Columns,
        Parameters |->
          [FilterAboveKph |->
             IF d[filename].parameters # <<>>
             THEN d[filename].parameters[1]
             ELSE cfg.Parameters.FilterAboveKph]]

\* The file main loads the configuration from, "" when it loads none.
ConfigSourceOf(d, named) ==
  IF named # NoName THEN named
  ELSE IF ConfigYaml \in DOMAIN d THEN ConfigYaml
  ELSE LET singleYAML == findSingleFileByExtension(d, ".yaml")
       IN IF singleYAML # NoName /\ singleYAML # ConfigYaml THEN singleYAML
          ELSE findSingleFileByExtension(d, ".yml")

\* Load configuration based on arguments, then
\* filterAboveKph := config.Parameters.FilterAboveKph
LoadConfig ==
  /\ pc = "config"
  /\ LET source == ConfigSourceOf(dir, configFile)
         loaded == IF source = NoName THEN config
                   ELSE loadConfig(dir, source, config)
     IN /\ config' = loaded
        /\ filterAboveKph' = loaded.Parameters.FilterAboveKph
  /\ pc' = "open"
  /\ UNCHANGED <<pipelineVars, args, dir, configFile, inputFile, written,
                 startDir, lastRun, outputs, run>>

\* readCSV: os.Open(filename)
OpenInput ==
  /\ pc = "open"
  /\ pc' = IF inputFile \in DOMAIN dir THEN "start" ELSE "error"
  /\ UNCHANGED <<pipelineVars, filterAboveKph, mainVars>>

\* baseName + "_processed." + format
getOutputFilename(name, format) ==
  SubSeq(name, 1, Len(name) - 1) \o
    <<"_processed", IF format = "kml" THEN ".kml" ELSE ".csv">>

\* fmt.Sprintf(verb, v), a literal text, time.Format(time.RFC3339), and
\* the empty text.
Sprintf(verb, v) == <<verb, v>>
Text(t) == <<"%s", t>>
FormatTime(ts) == <<"RFC3339", ts>>
Blank == <<>>

CsvHeader ==
  <<Text("ID"), Text("latitude"), Text("longitude"), Text("timestamp"),
    Text("original_row"), Text("previous_row"), Text("prev_latitude"),
    Text("prev_longitude"), Text("prev_timestamp"),
    Text("time_diff_seconds"), Text("distance_km"), Text("speed_kmh")>>

\* The row of a record: prevTimestampStr is empty for a zero PrevTimestamp;
\* all other fields are formatted whatever they hold.
CsvRow(record) ==
  <<Text(record.ID),
    Sprintf("%f", record.Latitude),
    Sprintf("%f", record.Longitude),
    FormatTime(record.Timestamp),
    Sprintf("%d", record.OriginalRow),
    Sprintf("%d", record.PreviousRow),
    Sprintf("%f", record.PrevLatitude),
    Sprintf("%f", record.PrevLongitude),
    IF record.PrevTimestamp # ZeroTime
    THEN FormatTime(record.PrevTimestamp) ELSE Blank,
    Sprintf("%f", record.TimeDiff),
    Sprintf("%f", record.Distance),
    Sprintf("%f", record.Speed)>>

\* The rows writeOutputCSV writes: the header, then the records' rows.
writeOutputCSV(recs) ==
  <<CsvHeader>> \o [i \in DOMAIN recs |-> CsvRow(recs[i])]

\* Step 5: os.Create fails and nothing is written; or the file is created
\* and a write fails, leaving some of the rows; or the file is written.
WriteOutputCSV ==
  /\ pc = "filtered"
  /\ LET csvOutputFile == getOutputFilename(inputFile, "csv")
         rows == writeOutputCSV(filteredRecords)
     IN \/ pc' = "exit1" /\ UNCHANGED <<dir, written, outputs>>
        \/ /\ dir' = WithFile(dir, csvOutputFile, OutputEntry)
           /\ written' = written \cup {csvOutputFile}
           /\ \/ /\ pc' = "csvdone"
                 /\ outputs' = WithFile(outputs, csvOutputFile, rows)
              \/ /\ pc' = "exit1"
                 /\ \E n \in 0..(Len(rows) - 1) :
                      outputs' = WithFile(outputs, csvOutputFile,
                                          SubSeq(rows, 1, n))
  /\ UNCHANGED <<pipelineVars, filterAboveKph, args, config, configFile,
                 inputFile, startDir, lastRun, run>>

\* The description of a point: the fields of the previous point are given
\* only if record.PreviousRow > 0.
KmlDescription(record) ==
  <<<<"ID", Text(record.ID)>>,
    <<"Latitude", Sprintf("%f", record.Latitude)>>,
    <<"Longitude", Sprintf("%f", record.Longitude)>>,
    <<"Timestamp", FormatTime(record.Timestamp)>>,
    <<"Original Row", Sprintf("%d", record.OriginalRow)>>,
    <<"Previous Row", Sprintf("%d", record.PreviousRow)>>>> \o
  (IF record.PreviousRow > 0
   THEN <<<<"Previous Latitude", Sprintf("%f", record.PrevLatitude)>>,
          <<"Previous Longitude", Sprintf("%f", record.PrevLongitude)>>,
          <<"Previous Timestamp", FormatTime(record.PrevTimestamp)>>,
          <<"Time Difference", Sprintf("%.2f", record.TimeDiff)>>,
          <<"Distance", Sprintf("%.6f", record.Distance)>>,
          <<"Speed", Sprintf("%.2f", record.Speed)>>>>
   ELSE <<>>)

KmlCoordinates(record) ==
  <<Sprintf("%f", record.Longitude), Sprintf("%f", record.Latitude)>>

\* The placemark of the i-th point of a device.
KmlPoint(i, id, record) ==
  [name |-> <<i, id>>,
   description |-> KmlDescription(record),
   coordinates |-> KmlCoordinates(record)]

\* The folder of a device: its style, the placemark of its trajectory (a
\* LineString through all its points) and the placemarks of its points.
KmlFolder(idCount, id, group) ==
  [name |-> id,
   color |-> idCount % 5,
   trajectory |->
     [points |-> Len(group),
      start |-> FormatTime(group[1].Timestamp),
      end |-> FormatTime(group[Len(group)].Timestamp),
      LineString |-> [i \in DOMAIN group |-> KmlCoordinates(group[i])]],
   placemarks |-> [i \in DOMAIN group |-> KmlPoint(i, id, group[i])]]

\* A sort that puts the latest first.
SortSliceDescending(group) ==
  {[i \in 1..Len(group) |-> group[p[i]]] : p \in
     {q \in IndexOrders(Len(group)) :
        \A i, j \in 1..Len(group) : i < j => ~Before(group[q[i]], group[q[j]])}}

\* sort.Slice(group, less) in writeOutputKML.
KmlSortSlice(group) == SortSlice(group)

\* Every document writeOutputKML may write: the records grouped by ID
\* again, each group sorted by timestamp, the groups in the order of the
\* map's range.
writeOutputKML(recs) ==
  LET groups == groupByID(recs)
      sorts  == {f \in [DOMAIN groups ->
                          UNION {KmlSortSlice(groups[id]) : id \in DOMAIN groups}] :
                   \A id \in DOMAIN groups : f[id] \in KmlSortSlice(groups[id])}
  IN {[i \in 1..Len(order) |-> KmlFolder(i - 1, order[i], sorted[order[i]])] :
        order \in KeyOrders(DOMAIN groups), sorted \in sorts}

\* Step 6: os.Create fails; or the file is written (a failed write of the
\* content is not reported).
WriteOutputKML ==
  /\ pc = "csvdone"
  /\ LET kmlOutputFile == getOutputFilename(inputFile, "kml")
     IN \/ pc' = "exit1" /\ UNCHANGED <<dir, written, outputs>>
        \/ /\ dir' = WithFile(dir, kmlOutputFile, OutputEntry)
           /\ written' = written \cup {kmlOutputFile}
           /\ \E document \in writeOutputKML(filteredRecords) :
                outputs' = WithFile(outputs, kmlOutputFile, document)
           /\ pc' = "done"
  /\ UNCHANGED <<pipelineVars, filterAboveKph, args, config, configFile,
                 inputFile, startDir, lastRun, run>>

\* The program is run again, with the same arguments, in the directory as
\* the run before left it.
MaxRuns == 2

NextRun ==
  /\ Ended
  /\ run < MaxRuns
  /\ run' = run + 1
  /\ lastRun' = <<[pc |-> pc, inputFile |-> inputFile, startDir |-> startDir]>>
  /\ startDir' = dir
  /\ pc' = "main"
  /\ config' = DefaultConfig(DefaultThreshold)
  /\ filterAboveKph' = DefaultThreshold
  /\ configFile' = NoName
  /\ inputFile' = NoName
  /\ written' = {}
  /\ outputs' = EmptyDir
  /\ next' = 1
  /\ rowNumber' = 0
  /\ idx' = [id |-> 0, lat |-> 0, lon |-> 0, ts |-> 0]
  /\ records' = <<>>
  /\ groupedRecords' = EmptyMap
  /\ processedRecords' = <<>>
  /\ filteredRecords' = <<>>
  /\ divisors' = {}
  /\ UNCHANGED <<file, previousRun, args, dir>>

\* --------------------------------------------------------- a second run
\* The pipeline run again on the same records with the same threshold.
Rerun ==
  /\ pc = "filtered"
  /\ previousRun = <<>>
  /\ previousRun' = <<[derived |-> processedRecords, filtered |-> filteredRecords]>>
  /\ pc' = "read"
  /\ groupedRecords' = EmptyMap
  /\ processedRecords' = <<>>
  /\ filteredRecords' = <<>>
  /\ UNCHANGED <<file, filterAboveKph, next, rowNumber, idx, records, divisors>>
  /\ UNCHANGED mainVars

\* ------------------------------------------------------- specifications
Next ==
  \/ ReadHeader
  \/ ReadRow
  \/ GroupByID
  \/ ProcessGroups
  \/ FilterRecords

\* One run of the program.
Spec == Init /\ [][Next]_vars

\* The pipeline on files whose IDs differ only in case or white space.
InitCase ==
  /\ pc = "start"
  /\ file \in CaseFiles
  /\ filterAboveKph = 0
  /\ next = 1
  /\ rowNumber = 0
  /\ idx = [id |-> 0, lat |-> 0, lon |-> 0, ts |-> 0]
  /\ records = <<>>
  /\ groupedRecords = EmptyMap
  /\ processedRecords = <<>>
  /\ filteredRecords = <<>>
  /\ divisors = {}
  /\ previousRun = <<>>
  /\ config = DefaultConfig(filterAboveKph)
  /\ NoCommandLine

SpecCase == InitCase /\ [][Next]_vars

\* The pipeline on the files of samples taken on the hour.
InitSamples ==
  /\ pc = "start"
  /\ file \in SampleFiles
  /\ filterAboveKph \in Thresholds
  /\ next = 1
  /\ rowNumber = 0
  /\ idx = [id |-> 0, lat |-> 0, lon |-> 0, ts |-> 0]
  /\ records = <<>>
  /\ groupedRecords = EmptyMap
  /\ processedRecords = <<>>
  /\ filteredRecords = <<>>
  /\ divisors = {}
  /\ previousRun = <<>>
  /\ config = DefaultConfig(filterAboveKph)
  /\ NoCommandLine

SpecSamples == InitSamples /\ [][Next]_vars

\* One run of the program on a longer file.
InitLong ==
  /\ pc = "start"
  /\ file \in LongFiles
  /\ filterAboveKph \in Thresholds
  /\ next = 1
  /\ rowNumber = 0
  /\ idx = [id |-> 0, lat |-> 0, lon |-> 0, ts |-> 0]
  /\ records = <<>>
  /\ groupedRecords = EmptyMap
  /\ processedRecords = <<>>
  /\ filteredRecords = <<>>
  /\ divisors = {}
  /\ previousRun = <<>>
  /\ config = DefaultConfig(filterAboveKph)
  /\ NoCommandLine

SpecLong == InitLong /\ [][Next]_vars

NextTwice == Next \/ Rerun

\* The pipeline run twice on one input.
SpecTwice == Init /\ [][NextTwice]_vars

\* main from its first statement, run after run.
InitMain ==
  /\ pc = "main"
  /\ file \in MainFiles
  /\ args \in ArgLists
  /\ dir \in Dirs
  /\ startDir = dir
  /\ config = DefaultConfig(DefaultThreshold)
  /\ filterAboveKph = DefaultThreshold
  /\ configFile = NoName
  /\ inputFile = NoName
  /\ written = {}
  /\ lastRun = <<>>
  /\ outputs = EmptyDir
  /\ run = 1
  /\ next = 1
  /\ rowNumber = 0
  /\ idx = [id |-> 0, lat |-> 0, lon |-> 0, ts |-> 0]
  /\ records = <<>>
  /\ groupedRecords = EmptyMap
  /\ processedRecords = <<>>
  /\ filteredRecords = <<>>
  /\ divisors = {}
  /\ previousRun = <<>>

NextMain ==
  \/ Help
  \/ CreateDefaultConfig
  \/ ParseArgs
  \/ LoadConfig
  \/ OpenInput
  \/ ReadHeader
  \/ ReadRow
  \/ GroupByID
  \/ ProcessGroups
  \/ FilterRecords
  \/ WriteOutputCSV
  \/ WriteOutputKML
  \/ NextRun

SpecMain == InitMain /\ [][NextMain]_vars

\* The records the writers may be given: first records of a group and
\* records with a predecessor, in any order.
WriterSamples ==
  {Record(id, 40, -74, at[1], at[2]) : id \in IDs, at \in {<<0, 2>>, <<3600, 3>>}}

WriterRecords ==
  {FirstOfGroup(a) : a \in WriterSamples}
  \cup {WithPrevious(ab[1], ab[2]) : ab \in
          {x \in WriterSamples \X WriterSamples :
             x[1].ID = x[2].ID /\ x[2].Timestamp < x[1].Timestamp}}

\* The two writers on any records, after a run on track_data.csv.
InitWriters ==
  /\ pc = "filtered"
  /\ filteredRecords \in SeqsUpTo(WriterRecords, MaxRows)
  /\ inputFile = TrackData
  /\ args = <<Arg(TrackData, <<>>)>>
  /\ dir = WithFile(WithFile(EmptyDir, ConfigYaml, DefaultYaml),
                    TrackData, CsvEntry)
  /\ startDir = dir
  /\ file = [header |-> GoodHeader, rows |-> <<>>]
  /\ config = DefaultConfig(DefaultThreshold)
  /\ filterAboveKph = DefaultThreshold
  /\ configFile = NoName
  /\ written = {}
  /\ outputs = EmptyDir
  /\ lastRun = <<>>
  /\ run = 1
  /\ next = 1
  /\ rowNumber = HeaderRowNumber
  /\ idx = [id |-> 1, lat |-> 2, lon |-> 3, ts |-> 4]
  /\ records = <<>>
  /\ groupedRecords = EmptyMap
  /\ processedRecords = <<>>
  /\ divisors = {}
  /\ previousRun = <<>>

NextWriters == WriteOutputCSV \/ WriteOutputKML

SpecWriters == InitWriters /\ [][NextWriters]_vars


\* ------------------------------------------------------------- properties
\* main holds the derived sequence / the filtered sequence.
Derived == pc \in {"processed", "filtered"}
Filtered == pc = "filtered"

DevicesOf(recs) == {recs[i].ID : i \in DOMAIN recs}
IndicesOf(recs, id) == {i \in DOMAIN recs : recs[i].ID = id}

\* C1: the derived sequence has exactly as many records as the raw input,
\* device by device, and for every threshold the filtered sequence has at
\* most as many records as the derived one.
C1_Lengths ==
  /\ Derived =>
       /\ Len(processedRecords) = Len(records)
       /\ \A id \in IDs :
            Cardinality(IndicesOf(processedRecords, id))
              = Cardinality(IndicesOf(records, id))
       /\ \A t \in QueryThresholds :
            Len(filterRecords(processedRecords, t)) <= Len(processedRecords)
  /\ Filtered =>
       /\ Len(filteredRecords) <= Len(processedRecords)
       /\ Len(processedRecords) <= Len(records)

C1_Witness ==
  /\ Filtered
  /\ Len(records) >= 3
  /\ Cardinality(DevicesOf(records)) = 2
  /\ Len(filteredRecords) > 0
  /\ Len(filteredRecords) < Len(processedRecords)

\* C2: a derived record with PreviousRow # 0 carries the OriginalRow,
\* Latitude, Longitude and Timestamp of a raw sample of its device that is
\* not later than it, with no sample of the device strictly between the
\* two, and that sample is the record right before it in the derived
\* sequence: its predecessor in timestamp order, named by its original row.
C2_Predecessor ==
  Derived =>
    \A k \in DOMAIN processedRecords :
      LET r == processedRecords[k]
      IN r.PreviousRow # 0 =>
           /\ k > 1
           /\ processedRecords[k - 1].ID = r.ID
           /\ processedRecords[k - 1].OriginalRow = r.PreviousRow
           /\ \E j \in DOMAIN records :
                LET s == records[j]
                IN /\ s.OriginalRow = r.PreviousRow
                   /\ s.OriginalRow # r.OriginalRow
                   /\ s.ID = r.ID
                   /\ r.PrevLatitude = s.Latitude
                   /\ r.PrevLongitude = s.Longitude
                   /\ r.PrevTimestamp = s.Timestamp
                   /\ s.Timestamp <= r.Timestamp
                   /\ ~ \E m \in DOMAIN records :
                          /\ records[m].ID = r.ID
                          /\ s.Timestamp < records[m].Timestamp
                          /\ records[m].Timestamp < r.Timestamp

\* A record whose predecessor in time came after it in the file, and whose
\* PreviousRow is neither the row above it nor an index in its group.
C2_Witness ==
  /\ Derived
  /\ \E k \in DOMAIN processedRecords :
       LET r == processedRecords[k]
       IN /\ r.PreviousRow > r.OriginalRow
          /\ r.PreviousRow > Len(records)
          /\ r.PrevTimestamp < r.Timestamp

\* C3: two samples of one device with equal timestamps keep their input
\* order in the derived sequence (the sort is stable).
C3_StableSort ==
  Derived =>
    \A i, j \in DOMAIN processedRecords :
      ( /\ i < j
        /\ processedRecords[i].ID = processedRecords[j].ID
        /\ processedRecords[i].Timestamp = processedRecords[j].Timestamp )
      => processedRecords[i].OriginalRow < processedRecords[j].OriginalRow


\* C4: the pipeline run twice on one raw input of more than one device, with
\* one threshold, gives the same derived and the same filtered sequence.
C4_SameOutputTwice ==
  ( /\ Filtered
    /\ previousRun # <<>>
    /\ Cardinality(DevicesOf(records)) > 1 )
  => /\ previousRun[1].derived = processedRecords
     /\ previousRun[1].filtered = filteredRecords

\* The first record of device id in a sequence that holds one.
FirstIndexOf(recs, id) ==
  CHOOSE i \in IndicesOf(recs, id) : \A j \in IndicesOf(recs, id) : i <= j

\* C5: the first record of every device group is a chronologically first
\* sample of the device, has PreviousRow 0 and TimeDiff, Distance, Speed,
\* PrevLatitude and PrevLongitude 0, and is in no filterRecords output,
\* whatever the threshold; a group of one record leaves nothing of its
\* device in the output.
C5_FirstOfGroupExcluded ==
  Derived =>
    LET outs == {filterRecords(processedRecords, t) : t \in QueryThresholds}
    IN \A id \in DevicesOf(records) :
      LET first == processedRecords[FirstIndexOf(processedRecords, id)]
      IN /\ \A j \in IndicesOf(records, id) :
              first.Timestamp <= records[j].Timestamp
         /\ first.PreviousRow = 0
         /\ first.TimeDiff = 0
         /\ first.Distance = 0
         /\ first.Speed = Fin(0)
         /\ first.PrevLatitude = 0
         /\ first.PrevLongitude = 0
         /\ \A out \in outs :
              /\ \A m \in DOMAIN out : out[m].OriginalRow # first.OriginalRow
              /\ Cardinality(IndicesOf(records, id)) = 1
                   => IndicesOf(out, id) = {}
         /\ Filtered =>
              /\ \A m \in DOMAIN filteredRecords :
                   filteredRecords[m].OriginalRow # first.OriginalRow
              /\ Cardinality(IndicesOf(records, id)) = 1
                   => IndicesOf(filteredRecords, id) = {}

\* A run with threshold 0 where one device has a single sample and the
\* other has samples that pass the filter.
C5_Witness ==
  /\ Filtered
  /\ filterAboveKph <= 0
  /\ \E id \in DevicesOf(records) : Cardinality(IndicesOf(records, id)) = 1
  /\ filteredRecords # <<>>

\* The indices of the records a threshold keeps, by the claim's words.
KeptIndices(recs, t) ==
  {i \in DOMAIN recs :
     /\ recs[i].PreviousRow # 0
     /\ recs[i].Speed.k = "fin"
     /\ recs[i].Speed.v >= t}

\* The j-th smallest member of a set of indices.
NthOf(S, j) == CHOOSE i \in S : Cardinality({m \in S : m < i}) = j - 1

\* C6: the filtered sequence is exactly the subsequence of the derived
\* records with PreviousRow # 0 and Speed >= threshold, in derived order.
C6_ExactSubsequence ==
  Filtered =>
    LET kept == KeptIndices(processedRecords, filterAboveKph)
    IN /\ Len(filteredRecords) = Cardinality(kept)
       /\ \A j \in DOMAIN filteredRecords :
            filteredRecords[j] = processedRecords[NthOf(kept, j)]

\* A record with a predecessor dropped for its speed, and a record kept with
\* a speed equal to a positive threshold.
C6_Witness ==
  /\ Filtered
  /\ filterAboveKph > 0
  /\ \E i \in DOMAIN processedRecords :
       /\ processedRecords[i].PreviousRow # 0
       /\ ~FloatGE(processedRecords[i].Speed, filterAboveKph)
  /\ \E j \in DOMAIN filteredRecords :
       filteredRecords[j].Speed = Fin(filterAboveKph)

\* C7: for thresholds t1 < t2 on one derived sequence, every record that
\* filterRecords keeps at t2 it keeps at t1.
C7_ThresholdMonotone ==
  Derived =>
    LET outs == {<<t, filterRecords(processedRecords, t)>> : t \in QueryThresholds}
    IN \A low, high \in outs :
         low[1] < high[1] =>
           \A j \in DOMAIN high[2] : \E m \in DOMAIN low[2] : low[2][m] = high[2][j]

\* A derived sequence of which the higher threshold keeps some records and
\* the lower one keeps more.
C7_Witness ==
  /\ Derived
  /\ filterRecords(processedRecords, 1000) # <<>>
  /\ Len(filterRecords(processedRecords, 1000))
       < Len(filterRecords(processedRecords, 0))

\* C8: a record with a predecessor has Speed 0 when its elapsed time is zero
\* or negative and otherwise the quotient of Distance by TimeDiff / 3600 (the
\* whole number below it), and no speed was divided by an elapsed time that
\* is zero or negative.
C8_SpeedGuarded ==
  /\ \A d \in divisors : d > 0
  /\ Derived =>
       \A k \in DOMAIN processedRecords :
         LET r == processedRecords[k]
         IN r.PreviousRow # 0 =>
              IF r.TimeDiff <= 0 THEN r.Speed = Fin(0)
              ELSE /\ r.Speed.k = "fin"
                   /\ r.Speed.v * r.TimeDiff <= r.Distance * 3600
                   /\ r.Distance * 3600 < (r.Speed.v + 1) * r.TimeDiff

\* One record with no elapsed time, at a distance from its predecessor, and
\* one with a speed that was divided out.
C8_Witness ==
  /\ Derived
  /\ divisors # {}
  /\ \E k \in DOMAIN processedRecords :
       LET r == processedRecords[k]
       IN r.PreviousRow # 0 /\ r.TimeDiff = 0 /\ r.Distance > 0 /\ r.Speed = Fin(0)
  /\ \E k \in DOMAIN processedRecords :
       LET r == processedRecords[k]
       IN r.PreviousRow # 0 /\ r.TimeDiff > 0 /\ r.Speed.v > 0

\* C9: every derived record has TimeDiff >= 0 and Speed >= 0.
C9_NonNegative ==
  Derived =>
    \A k \in DOMAIN processedRecords :
      LET r == processedRecords[k]
      IN r.TimeDiff >= 0 /\ r.Speed.k = "fin" /\ r.Speed.v >= 0

\* A device whose samples come later-first in the file, derived with a
\* positive elapsed time.
C9_Witness ==
  /\ Derived
  /\ \E i, j \in DOMAIN records :
       /\ i < j
       /\ records[i].ID = records[j].ID
       /\ records[i].Timestamp > records[j].Timestamp
       /\ \E k \in DOMAIN processedRecords :
            /\ processedRecords[k].OriginalRow = records[i].OriginalRow
            /\ processedRecords[k].PreviousRow = records[j].OriginalRow
            /\ processedRecords[k].TimeDiff > 0

\* readCSV holds the records of the rows read so far.
Reading == pc \in {"rows", "read"}

\* C10 as stated: the k-th data row gets original position k.
C10_HeaderExcluded ==
  Reading => \A k \in DOMAIN records : records[k].OriginalRow = k

\* C10: the k-th data row gets the row number k + 1 (the header is row 1, the
\* first data row is row 2), so the numbers are unique, strictly increasing
\* in file order, and never 0.
C10_RowNumbers ==
  Reading =>
    /\ \A k \in DOMAIN records : records[k].OriginalRow = k + 1
    /\ \A i, j \in DOMAIN records :
         i < j => records[i].OriginalRow < records[j].OriginalRow
    /\ rowNumber = Len(records) + 1

C10_Witness ==
  /\ pc = "read"
  /\ Len(records) >= 2
  /\ records[1].OriginalRow = 2

\* The thresholds that are zero or negative.
NonPositive == {t \in QueryThresholds : t <= 0}

HasPredecessor(r) == r.PreviousRow # 0

\* C12: with a threshold that is zero or negative, filterRecords keeps every
\* derived record that is not the first of its group, in order, so the
\* output is as long as the raw samples less the number of distinct IDs.
C12_NonPositiveThreshold ==
  Derived =>
    \A t \in NonPositive :
      LET out == filterRecords(processedRecords, t)
      IN /\ out = SelectSeq(processedRecords, HasPredecessor)
         /\ Len(out) = Len(records) - Cardinality(DevicesOf(records))

\* Two devices, three raw samples, and a record with a predecessor whose
\* speed is 0 (equal to the threshold 0, above the threshold -1).
C12_Witness ==
  /\ Derived
  /\ Len(records) = 3
  /\ Cardinality(DevicesOf(records)) = 2
  /\ \E k \in DOMAIN processedRecords :
       /\ processedRecords[k].PreviousRow # 0
       /\ processedRecords[k].Speed = Fin(0)
  /\ Len(filterRecords(processedRecords, 0)) = 1

\* The raw input is empty and groupByID has run.
EmptyInputGrouped ==
  records = <<>> /\ pc \in {"grouped", "processed", "filtered"}

\* C17: an empty raw input gives an empty group map, an empty derived
\* sequence and an empty filtered sequence, and each of groupByID,
\* processGroups and filterRecords has a result on it (its step can be
\* taken).
C17_EmptyInput ==
  /\ (pc = "read" /\ records = <<>>) =>
       /\ ENABLED GroupByID
       /\ groupByID(records) = EmptyMap
       /\ processGroups(EmptyMap) # {}
       /\ \A o \in processGroups(EmptyMap) : o.out = <<>>
       /\ \A t \in QueryThresholds : filterRecords(<<>>, t) = <<>>
  /\ EmptyInputGrouped =>
       /\ groupedRecords = EmptyMap
       /\ pc = "grouped" => ENABLED ProcessGroups
       /\ Derived => processedRecords = <<>>
       /\ pc = "processed" => ENABLED FilterRecords
       /\ Filtered => filteredRecords = <<>>

\* The three steps have run on an empty raw input.
C17_Witness ==
  /\ Filtered
  /\ records = <<>>
  /\ file.header = GoodHeader
  /\ file.rows = <<>>
  /\ filteredRecords = <<>>

\* groupByID has returned and processGroups has not yet sorted the buckets.
Grouped == pc = "grouped"

\* The places <<id, k>> of the buckets that hold the sample of a row.
PlacesOf(row) ==
  {p \in (DOMAIN groupedRecords) \X (1..Len(records)) :
     /\ p[2] <= Len(groupedRecords[p[1]])
     /\ groupedRecords[p[1]][p[2]].OriginalRow = row}

\* C11: groupByID partitions the input. Every sample is in exactly one
\* bucket, the one keyed by its ID exactly as read (IDs that differ in case
\* or white space are different keys); no bucket is empty; within a bucket
\* the samples are in their input order.
C11_Partition ==
  Grouped =>
    /\ DOMAIN groupedRecords = DevicesOf(records)
    /\ \A i \in DOMAIN records :
         /\ Cardinality(PlacesOf(records[i].OriginalRow)) = 1
         /\ \A p \in PlacesOf(records[i].OriginalRow) :
              p[1] = records[i].ID /\ groupedRecords[p[1]][p[2]] = records[i]
    /\ \A id \in DOMAIN groupedRecords :
         /\ groupedRecords[id] # <<>>
         /\ groupedRecords[id] = SelectSeq(records, LAMBDA r : r.ID = id)

\* Three samples whose IDs differ only in case or white space, in three
\* buckets.
C11_Witness ==
  /\ Grouped
  /\ Len(records) = 3
  /\ DevicesOf(records) = CaseIDs
  /\ DOMAIN groupedRecords = CaseIDs
  /\ \A id \in CaseIDs : Len(groupedRecords[id]) = 1

\* ------------------------------------------------------ the runs of main
\* filterRecords has been called in this run; readCSV has returned records.
FilterCalled == pc \in {"filtered", "csvdone", "done", "exit1"}
ReadReturned == pc \in {"read", "grouped", "processed"} \/ FilterCalled

\* The first argument is a help flag.
HelpAsked == Len(args) > 0 /\ IsHelp(args[1])

\* The second argument is a number.
CliThresholdGiven == Len(args) > 1 /\ args[2].float # <<>>

\* C13 as stated: a numeric second argument is the threshold filterRecords
\* is called with, whatever configuration file the run loads.
C13_CliThresholdUsed ==
  (FilterCalled /\ CliThresholdGiven) => filterAboveKph = args[2].float[1]

\* The configuration a run has after its arguments and the file named.
ConfigFrom(name) ==
  loadConfig(startDir, name, ConfigOfArgs(DefaultConfig(DefaultThreshold), args))

\* C14 as stated: a run with my_config.yaml named on the command line
\* loads that file and goes on to read the input with its settings,
\* whether or not the directory has a config.yaml.
C14_NamedConfigLoaded ==
  (Ended /\ ConfigFileOf(args) = MyConfig /\ MyConfig \in DOMAIN startDir) =>
    /\ pc # "halted"
    /\ config = ConfigFrom(MyConfig)

\* C15 as stated: a run that ends with an error has written no output
\* file.
C15_NoOutputOnError ==
  pc \in {"error", "exit1"} => written = {}

\* The header has the four configured columns; every row has a latitude,
\* a longitude and a timestamp that parse.
HeaderHas(name) == \E i \in DOMAIN file.header : file.header[i] = name

HeaderComplete ==
  /\ HeaderHas(config.Columns.ID)
  /\ HeaderHas(config.Columns.Latitude)
  /\ HeaderHas(config.Columns.Longitude)
  /\ HeaderHas(config.Columns.Timestamp)

RowsParse ==
  \A k \in DOMAIN file.rows : \A c \in 2..4 : file.rows[k][c].ok

\* C16: readCSV returns records only for a file whose header has the four
\* configured columns and whose rows all parse; on an error it returns no
\* records, and main ends without groups, derived or filtered records and
\* without an output file.
C16_ReadErrorStops ==
  /\ ReadReturned => (HeaderComplete /\ RowsParse)
  /\ pc = "error" =>
       /\ records = <<>>
       /\ groupedRecords = EmptyMap
       /\ processedRecords = <<>>
       /\ filteredRecords = <<>>
       /\ written = {}
       /\ dir = startDir
  /\ (pc \notin {"main", "args", "config", "open", "start", "rows"}
        /\ ~HelpAsked /\ pc # "halted"
        /\ inputFile \in DOMAIN dir
        /\ ~(HeaderComplete /\ RowsParse)) => pc = "error"

\* A run that read one row and then a row that does not parse: the record
\* of the first row is not returned.
C16_Witness ==
  /\ pc = "error"
  /\ inputFile \in DOMAIN dir
  /\ HeaderComplete
  /\ Len(file.rows) = 2
  /\ ~RowsParse
  /\ next = 3
  /\ records = <<>>

SingleOtherYaml ==
  /\ ConfigYaml \notin DOMAIN startDir
  /\ Cardinality({n \in DOMAIN startDir : Ext(n) \in {".yaml", ".yml"}}) = 1

\* C19 as stated: without a configuration file on the command line and
\* without config.yaml, a run takes the only other YAML file of the
\* directory as its configuration and goes on to process the input.
C19_SingleYamlUsed ==
  (Ended /\ ~HelpAsked /\ ConfigFileOf(args) = NoName /\ SingleOtherYaml) =>
    /\ pc # "halted"
    /\ \A n \in DOMAIN startDir :
         Ext(n) \in {".yaml", ".yml"} => config = ConfigFrom(n)

\* The run has chosen its input and no argument named it.
InputAutoDetected ==
  args = <<>> /\ pc \notin {"main", "args", "help", "halted"}

\* The CSV files of a directory that are not outputs of a run.
InputCandidates(d) ==
  {n \in DOMAIN d : Ext(n) = ".csv" /\ ~Contains(n, "_processed")}

C21_OnlySelects ==
  [][FilterRecords =>
       /\ processedRecords' = processedRecords
       /\ \A j \in DOMAIN filteredRecords' :
            \E i \in DOMAIN processedRecords :
              processedRecords[i] = filteredRecords'[j]]_vars

\* filterRecords has kept a record with a speed and dropped another.
C21_Witness ==
  /\ Filtered
  /\ Len(processedRecords) = 3
  /\ Len(filteredRecords) = 1
  /\ filteredRecords[1].Speed = Fin(1353)
  /\ filteredRecords[1].PreviousRow # 0
  /\ \E i \in DOMAIN processedRecords : processedRecords[i] = filteredRecords[1]

\* The places of the derived sequence whose record follows, in its group, a
\* record with the same timestamp.
TiedPlaces ==
  {k \in 2..Len(processedRecords) :
     /\ processedRecords[k - 1].ID = processedRecords[k].ID
     /\ processedRecords[k - 1].Timestamp = processedRecords[k].Timestamp}

RowsOf(recs) == {recs[i].OriginalRow : i \in DOMAIN recs}

\* C22: of two samples of one device with the same timestamp, the later one
\* in group order gets TimeDiff 0 and Speed 0, its Distance is the distance
\* between the two points, and no threshold above 0 keeps it.
C22_IdenticalTimestamps ==
  Derived =>
    /\ \A k \in TiedPlaces :
         LET r == processedRecords[k]
             p == processedRecords[k - 1]
         IN /\ r.PreviousRow = p.OriginalRow
            /\ r.TimeDiff = 0
            /\ r.Speed = Fin(0)
            /\ r.Distance = DistanceOf[<<p.Latitude, p.Longitude>>,
                                       <<r.Latitude, r.Longitude>>]
            /\ \A t \in QueryThresholds :
                 t > 0 => r.OriginalRow \notin RowsOf(filterRecords(processedRecords, t))
    /\ \A i, j \in DOMAIN records :
         (i # j /\ records[i].ID = records[j].ID
                /\ records[i].Timestamp = records[j].Timestamp) =>
           \E k \in TiedPlaces :
             processedRecords[k].OriginalRow
               \in {records[i].OriginalRow, records[j].OriginalRow}

\* Two samples of one device at the same time, 1353 km apart, and a third
\* an hour later: the threshold 676 keeps the third only.
C22_Witness ==
  /\ Filtered
  /\ filterAboveKph = 676
  /\ \E k \in TiedPlaces :
       /\ processedRecords[k].Distance = 1353
       /\ processedRecords[k].Speed = Fin(0)
       /\ processedRecords[k].OriginalRow \notin RowsOf(filteredRecords)
  /\ Len(filteredRecords) = 1

\* ------------------------------------------------------------ the writers
CsvOutput == outputs[getOutputFilename(inputFile, "csv")]
KmlOutput == outputs[getOutputFilename(inputFile, "kml")]

GivenOf(id) == SelectSeq(filteredRecords, LAMBDA r : r.ID = id)

\* The sum of the numbers of point placemarks of the folders.
RECURSIVE PointCount(_, _)
PointCount(document, i) ==
  IF i > Len(document) THEN 0
  ELSE Len(document[i].placemarks) + PointCount(document, i + 1)

\* C24: writeOutputKML groups the records it is given by ID again, puts
\* each group in ascending order of timestamp whatever order it came in,
\* and writes for each device one folder with one LineString through the
\* group's points and one point placemark for each record of the device;
\* the point placemarks are as many as the records given.
C24_KmlFeatures ==
  pc = "done" =>
    /\ {KmlOutput[f].name : f \in DOMAIN KmlOutput} = DevicesOf(filteredRecords)
    /\ Len(KmlOutput) = Cardinality(DevicesOf(filteredRecords))
    /\ PointCount(KmlOutput, 1) = Len(filteredRecords)
    /\ \A f \in DOMAIN KmlOutput :
         LET folder == KmlOutput[f]
             given  == GivenOf(folder.name)
         IN /\ Len(folder.placemarks) = Len(given)
            /\ Len(folder.trajectory.LineString) = Len(given)
            /\ \E p \in IndexOrders(Len(given)) :
                 \A i \in DOMAIN given :
                   /\ folder.placemarks[i] = KmlPoint(i, folder.name, given[p[i]])
                   /\ folder.trajectory.LineString[i] = KmlCoordinates(given[p[i]])
            /\ \A i, j \in DOMAIN folder.placemarks :
                 i < j => folder.placemarks[i].description[4][2][2]
                            <= folder.placemarks[j].description[4][2][2]

\* Three records given with a device's later record before its earlier
\* one and a record of the other device between them: two folders, the
\* first device's points in order of time.
C24_Witness ==
  /\ pc = "done"
  /\ Len(filteredRecords) = 3
  /\ filteredRecords[1].ID = "d1" /\ filteredRecords[1].Timestamp = 3600
  /\ filteredRecords[2].ID = "d2"
  /\ filteredRecords[3].ID = "d1" /\ filteredRecords[3].Timestamp = 0
  /\ Len(KmlOutput) = 2
  /\ \E f \in DOMAIN KmlOutput :
       /\ KmlOutput[f].name = "d1"
       /\ KmlOutput[f].placemarks[1] = KmlPoint(1, "d1", filteredRecords[3])
       /\ KmlOutput[f].placemarks[2] = KmlPoint(2, "d1", filteredRecords[1])

\* ----------------------------------------------------------- distance
\* Places over the whole range of latitude and longitude.
GridPoints ==
  {<<lat, lon>> : lat \in {-90, -45, 40, 50}, lon \in {-180, -74, -64, 1}}

\* distance(A, B) = distance(B, A) for the places of the grid.
SymmetricOnGrid ==
  \A a, b \in GridPoints : Distance(a[1], a[2], b[1], b[2])
                             = Distance(b[1], b[2], a[1], a[2])

\* C25: the distance function is symmetric, so the Distance of a derived
\* record is the same whichever of the two samples is passed first.
C25_DistanceSymmetric ==
  Derived =>
    /\ SymmetricOnGrid
    /\ \A a, b \in Points : DistanceOf[a, b] = DistanceOf[b, a]
    /\ \A k \in DOMAIN processedRecords :
         LET r == processedRecords[k]
         IN r.PreviousRow # 0 =>
              r.Distance = DistanceOf[<<r.Latitude, r.Longitude>>,
                                      <<r.PrevLatitude, r.PrevLongitude>>]

\* One device goes from the first place to the second and back: both
\* records are 1353 km from their predecessor.
C25_Witness ==
  /\ Derived
  /\ \E k, m \in DOMAIN processedRecords :
       /\ processedRecords[k].PreviousRow # 0
       /\ processedRecords[m].PreviousRow # 0
       /\ processedRecords[k].Latitude = 40 /\ processedRecords[k].PrevLatitude = 50
       /\ processedRecords[m].Latitude = 50 /\ processedRecords[m].PrevLatitude = 40
       /\ processedRecords[k].Distance = 1353
       /\ processedRecords[m].Distance = 1353

\* ------------------------------------------------- what filterRecords returns
\* C26 as stated: what filterRecords returns when it drops every record of
\* a non-empty input is not what it returns on an empty input.
C26_AllFilteredDistinct ==
  (Filtered /\ processedRecords # <<>> /\ Len(filteredRecords) = 0) =>
    filteredRecords # filterRecords(<<>>, filterAboveKph)


\* The positions of the device's records that no other record of the device
\* comes before in time.
EarliestOf(recs, id) ==
  {i \in IndicesOf(recs, id) :
     \A j \in IndicesOf(recs, id) : recs[i].Timestamp <= recs[j].Timestamp}

\* C27: every OriginalRow readCSV hands out is non-zero, so in the derived
\* sequence PreviousRow = 0 marks exactly the record that stands first in its
\* device's chronological order, and that record is an earliest one.
C27_ZeroMarksFirst ==
  /\ \A i \in DOMAIN records : records[i].OriginalRow # 0
  /\ Derived =>
       \A k \in DOMAIN processedRecords :
         LET r == processedRecords[k]
         IN /\ r.OriginalRow # 0
            /\ r.PreviousRow = 0 <=>
                 /\ k = FirstIndexOf(processedRecords, r.ID)
                 /\ k \in EarliestOf(processedRecords, r.ID)

\* A device with a first record and a later one, whose PreviousRow is the
\* first one's row; the first data row of the file is among the records.
C27_Witness ==
  /\ Derived
  /\ \E k \in DOMAIN processedRecords :
       /\ k > 1
       /\ processedRecords[k].PreviousRow = processedRecords[k - 1].OriginalRow
       /\ processedRecords[k - 1].PreviousRow = 0
       /\ processedRecords[k - 1].OriginalRow = HeaderRowNumber + 1

\* The five fields readCSV fills.
RawFields(r) == <<r.ID, r.Latitude, r.Longitude, r.Timestamp, r.OriginalRow>>

\* C28: the derived sequence is a permutation of the raw samples: the same
\* length, every raw sample's five fields in exactly one derived record, and
\* no derived record carrying raw fields the input does not have.
C28_Permutation ==
  Derived =>
    /\ Len(processedRecords) = Len(records)
    /\ \A i \in DOMAIN records :
         Cardinality({k \in DOMAIN processedRecords :
                        RawFields(processedRecords[k]) = RawFields(records[i])}) = 1
    /\ \A k \in DOMAIN processedRecords :
         \E i \in DOMAIN records :
           RawFields(processedRecords[k]) = RawFields(records[i])

\* Three samples of two devices that come out in another order than they
\* went in.
C28_Witness ==
  /\ Derived
  /\ Len(records) = 3
  /\ Cardinality(DevicesOf(records)) = 2
  /\ \E i \in DOMAIN records :
       RawFields(processedRecords[i]) # RawFields(records[i])

\* A device's records stand together and in non-decreasing time.
ContiguousAndOrdered(recs) ==
  /\ \A i, j, k \in DOMAIN recs :
       (i < j /\ j < k /\ recs[i].ID = recs[k].ID) => recs[j].ID = recs[i].ID
  /\ \A i, j \in DOMAIN recs :
       (i < j /\ recs[i].ID = recs[j].ID) => recs[i].Timestamp <= recs[j].Timestamp

\* C29: in the derived sequence and in the filtered one, for every threshold,
\* each device's records are contiguous and their timestamps never decrease.
C29_ContiguousOrdered ==
  /\ Derived =>
       /\ ContiguousAndOrdered(processedRecords)
       /\ \A t \in QueryThresholds :
            ContiguousAndOrdered(filterRecords(processedRecords, t))
  /\ Filtered => ContiguousAndOrdered(filteredRecords)

\* Two devices in the filtered output, one of them with two records at
\* different times, from a file where the devices' rows alternate.
C29_Witness ==
  /\ Filtered
  /\ Len(filteredRecords) = 3
  /\ Cardinality(DevicesOf(filteredRecords)) = 2
  /\ \E i \in DOMAIN filteredRecords :
       /\ i > 1
       /\ filteredRecords[i].ID = filteredRecords[i - 1].ID
       /\ filteredRecords[i].Timestamp > filteredRecords[i - 1].Timestamp
  /\ \E i \in DOMAIN records :
       i > 1 /\ i < Len(records) /\ records[i - 1].ID = records[i + 1].ID
             /\ records[i].ID # records[i - 1].ID

\* C30: the PreviousRow of every filtered record is the OriginalRow of another
\* raw sample, of the same device and not later in time.
C30_PreviousRowRefers ==
  Filtered =>
    \A j \in DOMAIN filteredRecords :
      LET f == filteredRecords[j]
      IN \E i \in DOMAIN records :
           /\ records[i].OriginalRow = f.PreviousRow
           /\ records[i].OriginalRow # f.OriginalRow
           /\ records[i].ID = f.ID
           /\ records[i].Timestamp <= f.Timestamp

\* A filtered record whose PreviousRow names a sample that is not in the
\* filtered output.
C30_Witness ==
  /\ Filtered
  /\ \E j \in DOMAIN filteredRecords :
       /\ filteredRecords[j].PreviousRow \in RowsOf(records)
       /\ filteredRecords[j].PreviousRow \notin RowsOf(filteredRecords)

====
